---- MODULE Spec2Model ----
(***************************************************************************)
(* DockerFatmanDeployer (src/src/deployer.py): deploying, deleting and     *)
(* probing workloads as containers of one local docker daemon.             *)
(*                                                                         *)
(* Every docker command the deployer runs is one atomic step of the        *)
(* calling process; the daemon's container namespace is the shared state.  *)
(* Strings are sequences of one-character strings, so that formatting and  *)
(* prefixes are computed, not assumed.                                     *)
(***************************************************************************)
EXTENDS Integers, Sequences, FiniteSets, TLC

VARIABLES
    containers,            \* the daemon: set of [name, port, running]
    pc,                    \* per caller: the place in the running operation
    req,                   \* per caller: the arguments of the running call
    container_index,       \* per caller: the loop variable (lines 75, 108)
    fatman_port,           \* per caller: line 46
    deployment_timestamp,  \* per caller: line 48
    common_env_vars,       \* per caller: lines 52-63
    plugin_vars_list,      \* per caller: line 69, what the plugins' hook returned
    runtime_env_vars,      \* per caller: lines 68-72, the composed environment
    calls,                 \* per caller: docker commands issued by this call
    before,                \* per caller: the daemon's containers when called
    result,                \* per caller: what the call returned or raised
    prev,                  \* the call before the running one, if a deploy that returned
    naming                 \* inputs and outputs of the naming scheme alone

procVars == <<pc, req, container_index, fatman_port, deployment_timestamp,
              common_env_vars, plugin_vars_list, runtime_env_vars, calls, before,
              result>>
vars == <<containers, procVars, prev, naming>>

----------------------------------------------------------------------------
(* Bounds of the model *)

MaxContainers == 3      \* containers_num ranges over 1..MaxContainers
MaxTime == 2            \* deployment timestamps range over 1..MaxTime
MaxIndex == 11          \* indices given to the naming scheme alone
MaxHole == 2            \* freed ports in the allocator's enumerated daemons

(* Program constants *)

PortStart == 7000       \* range(7000, 8000, 10)
PortEnd == 8000
PortStep == 10
DeleteRange == 2        \* range(2) of delete_fatman

Procs == {1, 2}
SeqProcs == {1}

----------------------------------------------------------------------------
(* Text *)

Digits == <<"0", "1", "2", "3", "4", "5", "6", "7", "8", "9">>

RECURSIVE str(_)
str(n) ==
    IF n < 10 THEN <<Digits[n + 1]>>
    ELSE str(n \div 10) \o <<Digits[(n % 10) + 1]>>

IsPrefix(s, t) == Len(s) <= Len(t) /\ SubSeq(t, 1, Len(s)) = s

ReplaceDots(s) == [i \in 1..Len(s) |-> IF s[i] = "." THEN "-" ELSE s[i]]

FatmanPrefix == <<"f", "a", "t", "m", "a", "n", "-">>

fatman_resource_name(name, version) ==
    ReplaceDots(FatmanPrefix \o name \o <<"-", "v", "-">> \o version)

\* Variant: the first auxiliary container named like the primary
GetContainerNameFromOne(resource_name, index) ==
    IF index <= 1 THEN resource_name
    ELSE resource_name \o <<"-">> \o str(index)

get_container_name(resource_name, index) ==
    IF index = 0 THEN resource_name
    ELSE resource_name \o <<"-">> \o str(index)

----------------------------------------------------------------------------
(* Environment mappings: functions from variable names to text *)

EmptyEnv == <<>>

merge_env_vars(env1, env2) ==
    [k \in (DOMAIN env1) \cup (DOMAIN env2) |->
        IF k \in DOMAIN env2 THEN env2[k] ELSE env1[k]]

Env1(k, v) == [x \in {k} |-> v]

InternalPubUrl == <<"u">>
AuthToken == <<"k">>
TracingHeader == <<"h">>
TelemetryEndpoint == <<"e">>

\* Variant: the user module's hostname is reserved whatever the count
CommonEnvVarsAlwaysHostname(r, timestamp) ==
    [k \in {"PUB_URL", "FATMAN_NAME", "AUTH_TOKEN", "FATMAN_DEPLOYMENT_TIMESTAMP",
            "REQUEST_TRACING_HEADER", "FATMAN_USER_MODULE_HOSTNAME"}
           \cup (IF r.open_telemetry_enabled THEN {"OPENTELEMETRY_ENDPOINT"} ELSE {}) |->
        CASE k = "PUB_URL" -> InternalPubUrl
          [] k = "FATMAN_NAME" -> r.name
          [] k = "AUTH_TOKEN" -> AuthToken
          [] k = "FATMAN_DEPLOYMENT_TIMESTAMP" -> str(timestamp)
          [] k = "OPENTELEMETRY_ENDPOINT" -> TelemetryEndpoint
          [] k = "FATMAN_USER_MODULE_HOSTNAME" ->
                get_container_name(fatman_resource_name(r.name, r.version), 1)
          [] OTHER -> TracingHeader]

CommonEnvVars(r, timestamp) ==
    LET base == [k \in {"PUB_URL", "FATMAN_NAME", "AUTH_TOKEN",
                        "FATMAN_DEPLOYMENT_TIMESTAMP", "REQUEST_TRACING_HEADER"} |->
                    CASE k = "PUB_URL" -> InternalPubUrl
                      [] k = "FATMAN_NAME" -> r.name
                      [] k = "AUTH_TOKEN" -> AuthToken
                      [] k = "FATMAN_DEPLOYMENT_TIMESTAMP" -> str(timestamp)
                      [] OTHER -> TracingHeader]
        tele == IF r.open_telemetry_enabled
                THEN merge_env_vars(base, Env1("OPENTELEMETRY_ENDPOINT", TelemetryEndpoint))
                ELSE base
    IN  IF r.containers_num > 1
        THEN merge_env_vars(tele, Env1("FATMAN_USER_MODULE_HOSTNAME",
                get_container_name(fatman_resource_name(r.name, r.version), 1)))
        ELSE tele

\* Variant: the check made after the reserved variables were overlaid
ConflictsAfterOverlay(common, user) ==
    (DOMAIN common) \cap (DOMAIN merge_env_vars(user, common))

Conflicts(common, user) == (DOMAIN common) \cap (DOMAIN user)

\* Variant: a plugin's value does not replace a value already set
RECURSIVE MergePluginsKeepingEarlier(_, _)
MergePluginsKeepingEarlier(env, vars_list) ==
    IF vars_list = <<>> THEN env
    ELSE MergePluginsKeepingEarlier(merge_env_vars(Head(vars_list), env),
                                    Tail(vars_list))

\* Variant: the loop over the plugins' mappings ends at the first empty one
RECURSIVE MergePluginsUntilEmpty(_, _)
MergePluginsUntilEmpty(env, vars_list) ==
    IF vars_list = <<>> \/ DOMAIN Head(vars_list) = {} THEN env
    ELSE MergePluginsUntilEmpty(merge_env_vars(env, Head(vars_list)), Tail(vars_list))

RECURSIVE MergePlugins(_, _)
MergePlugins(env, vars_list) ==
    IF vars_list = <<>> THEN env
    ELSE LET plugin_vars == Head(vars_list)
         IN  MergePlugins(IF DOMAIN plugin_vars # {}
                          THEN merge_env_vars(env, plugin_vars) ELSE env,
                          Tail(vars_list))

----------------------------------------------------------------------------
(* The docker daemon *)

NoPort == 0
InternalPort == 7000    \* FATMAN_INTERNAL_PORT

Names(cs) == {c.name : c \in cs}

\* docker ps -a --filter "name=^/<name>$" --format "{{.Names}}"
DockerPsAll(name) == {c.name : c \in {d \in containers : d.name = name}}

\* Variant: any listed name that starts with the name counts
ContainerExistsByPrefix(container_name) ==
    \E c \in containers : IsPrefix(container_name, c.name)

_container_exists(container_name) == container_name \in DockerPsAll(container_name)

fatman_exists(name, version) ==
    _container_exists(get_container_name(fatman_resource_name(name, version), 0))

\* Variant: the regular expression takes the container's port of each mapping
OccupiedPortsOfContainerSide(cs) ==
    {InternalPort : c \in {d \in cs : /\ d.running
                                       /\ IsPrefix(FatmanPrefix, d.name)
                                       /\ Len(d.name) > Len(FatmanPrefix)
                                       /\ d.port # NoPort}}

\* docker ps --filter "name=^/fatman-" --format "{{.Names}} {{.Ports}}", and the
\* host port the regular expression takes from each line that has a mapping
OccupiedPorts(cs) ==
    {c.port : c \in {d \in cs : /\ d.running
                                /\ IsPrefix(FatmanPrefix, d.name)
                                /\ Len(d.name) > Len(FatmanPrefix)
                                /\ d.port # NoPort}}

\* Variant: the port after the highest occupied one
ScanPortsAfterHighest(port, occupied_ports) ==
    IF occupied_ports = {} THEN port
    ELSE LET top == CHOOSE x \in occupied_ports : \A y \in occupied_ports : y <= x
         IN  IF top + PortStep >= PortEnd THEN PortEnd ELSE top + PortStep

RECURSIVE ScanPorts(_, _)
ScanPorts(port, occupied_ports) ==
    IF port >= PortEnd THEN PortEnd
    ELSE IF port \notin occupied_ports THEN port
    ELSE ScanPorts(port + PortStep, occupied_ports)

_get_next_fatman_port(cs) == ScanPorts(PortStart, OccupiedPorts(cs))

PublishedPorts(cs) == {c.port : c \in {d \in cs : d.running /\ d.port # NoPort}}

----------------------------------------------------------------------------
(* Inputs *)

Manifests ==
    { [name |-> <<"a">>, version |-> <<"1">>],
      [name |-> <<"a">>, version |-> <<"1", ".", "1">>] }

UserEnvs ==
    { EmptyEnv,
      Env1("MY_VAR", <<"m">>),
      Env1("PUB_URL", <<"x">>),
      Env1("FATMAN_USER_MODULE_HOSTNAME", <<"w">>) }

PluginVarsLists ==
    { <<>>,
      << Env1("PUB_URL", <<"p">>) >>,
      << merge_env_vars(Env1("MY_VAR", <<"q">>),
                        Env1("FATMAN_DEPLOYMENT_TIMESTAMP", <<"9">>)),
         EmptyEnv,
         Env1("MY_VAR", <<"r">>) >> }

Timestamps == 1..MaxTime

Tags == {<<"t">>}

FatmanSecrets == {EmptyEnv, Env1("SECRET", <<"z">>)}

NoReq ==
    [op |-> "none", name |-> <<>>, version |-> <<>>, containers_num |-> 0,
     runtime_env_vars |-> EmptyEnv, open_telemetry_enabled |-> FALSE, tag |-> <<>>,
     fatman_secrets |-> EmptyEnv]

NoResult == [kind |-> "none", value |-> <<>>]
NoPrev == [op |-> "none", name |-> <<>>, version |-> <<>>, containers_num |-> 0]
NoNaming == [id |-> <<>>, i |-> 0, j |-> 0, out |-> <<>>]

ResourceName(p) == fatman_resource_name(req[p].name, req[p].version)

DockerCall(cmd, name, port, env) ==
    [cmd |-> cmd, name |-> name, port |-> port, env |-> env]

----------------------------------------------------------------------------
(* The state after construction: an empty daemon, no call in progress *)

InitProcs ==
    /\ pc = [p \in Procs |-> "idle"]
    /\ req = [p \in Procs |-> NoReq]
    /\ container_index = [p \in Procs |-> 0]
    /\ fatman_port = [p \in Procs |-> NoPort]
    /\ deployment_timestamp = [p \in Procs |-> 0]
    /\ common_env_vars = [p \in Procs |-> EmptyEnv]
    /\ plugin_vars_list = [p \in Procs |-> <<>>]
    /\ runtime_env_vars = [p \in Procs |-> EmptyEnv]
    /\ calls = [p \in Procs |-> <<>>]
    /\ before = [p \in Procs |-> {}]
    /\ result = [p \in Procs |-> NoResult]

Init ==
    /\ containers = {}
    /\ InitProcs
    /\ prev = NoPrev
    /\ naming = NoNaming

----------------------------------------------------------------------------
(* Calls *)

Enter(p, r, start) ==
    /\ pc[p] = "idle"
    /\ pc' = [pc EXCEPT ![p] = start]
    /\ req' = [req EXCEPT ![p] = r]
    /\ before' = [before EXCEPT ![p] = containers]
    /\ UNCHANGED <<containers, container_index, fatman_port, deployment_timestamp,
                   common_env_vars, plugin_vars_list, runtime_env_vars, calls, result,
                   prev, naming>>

DeployRequest(m, n, e, t, tag) ==
    [op |-> "deploy", name |-> m.name, version |-> m.version, containers_num |-> n,
     runtime_env_vars |-> e, open_telemetry_enabled |-> t, tag |-> tag,
     fatman_secrets |-> EmptyEnv]

CallDeploy(p) ==
    \E m \in Manifests, n \in 1..MaxContainers, e \in UserEnvs, t \in BOOLEAN,
       tag \in Tags :
        Enter(p, DeployRequest(m, n, e, t, tag), "deploy_exists")

\* A deploy of the plainest kind: no caller variables, no telemetry
CallPlainDeploy(p) ==
    \E m \in Manifests, n \in 1..MaxContainers :
        Enter(p, DeployRequest(m, n, EmptyEnv, FALSE, <<"t">>), "deploy_exists")

CallDelete(p) ==
    \E m \in Manifests :
        Enter(p, [NoReq EXCEPT !.op = "delete", !.name = m.name,
                               !.version = m.version], "delete_check")

CallExists(p) ==
    \E m \in Manifests :
        Enter(p, [NoReq EXCEPT !.op = "exists", !.name = m.name,
                               !.version = m.version], "exists_check")

\* Variant: the secrets operation does nothing and returns
SecretsIgnored(p, r) ==
    /\ pc[p] = "idle"
    /\ pc' = [pc EXCEPT ![p] = "done"]
    /\ req' = [req EXCEPT ![p] = r]
    /\ before' = [before EXCEPT ![p] = containers]
    /\ result' = [result EXCEPT ![p] = [kind |-> "returned", value |-> <<>>]]
    /\ UNCHANGED <<containers, container_index, fatman_port, deployment_timestamp,
                   common_env_vars, plugin_vars_list, runtime_env_vars, calls,
                   prev, naming>>

\* Lines 145 and 151: the body is one raise
SecretsUnsupported(p, r) ==
    /\ pc[p] = "idle"
    /\ pc' = [pc EXCEPT ![p] = "failed"]
    /\ req' = [req EXCEPT ![p] = r]
    /\ before' = [before EXCEPT ![p] = containers]
    /\ result' = [result EXCEPT ![p] = [kind |-> "NotImplementedError", value |-> <<>>]]
    /\ UNCHANGED <<containers, container_index, fatman_port, deployment_timestamp,
                   common_env_vars, plugin_vars_list, runtime_env_vars, calls,
                   prev, naming>>

save_fatman_secrets(p) ==
    \E m \in Manifests, secrets \in FatmanSecrets :
        SecretsUnsupported(p, [NoReq EXCEPT !.op = "save_fatman_secrets",
                                            !.name = m.name, !.version = m.version,
                                            !.fatman_secrets = secrets])

get_fatman_secrets(p) ==
    \E m \in Manifests :
        SecretsUnsupported(p, [NoReq EXCEPT !.op = "get_fatman_secrets",
                                            !.name = m.name, !.version = m.version])

Log(p, c) == calls' = [calls EXCEPT ![p] = Append(@, c)]

\* Variant: the existence check is made and the deletion left out
DeployExistsWithoutCleanup(p) ==
    /\ pc[p] = "deploy_exists"
    /\ Log(p, DockerCall("ps_a", get_container_name(ResourceName(p), 0), NoPort, EmptyEnv))
    /\ pc' = [pc EXCEPT ![p] = "allocate"]
    /\ container_index' = [container_index EXCEPT ![p] = 0]
    /\ UNCHANGED <<containers, req, fatman_port, deployment_timestamp,
                   common_env_vars, plugin_vars_list, runtime_env_vars, before, result,
                   prev, naming>>

\* deploy_fatman, line 43
DeployExists(p) ==
    /\ pc[p] = "deploy_exists"
    /\ Log(p, DockerCall("ps_a", get_container_name(ResourceName(p), 0), NoPort, EmptyEnv))
    /\ pc' = [pc EXCEPT ![p] =
                IF fatman_exists(req[p].name, req[p].version)
                THEN "delete_check" ELSE "allocate"]
    /\ container_index' = [container_index EXCEPT ![p] = 0]
    /\ UNCHANGED <<containers, req, fatman_port, deployment_timestamp,
                   common_env_vars, plugin_vars_list, runtime_env_vars, before, result,
                   prev, naming>>

\* Variant: only the primary container is deleted
DeleteAdvancePrimaryOnly(p) ==
    /\ container_index' = [container_index EXCEPT ![p] = @ + 1]
    /\ pc' = [pc EXCEPT ![p] = IF req[p].op = "deploy" THEN "allocate" ELSE "done"]

AfterDelete(p) == IF req[p].op = "deploy" THEN "allocate" ELSE "done"

\* The place after container_index has been handled by delete_fatman's loop
DeleteAdvance(p) ==
    /\ container_index' = [container_index EXCEPT ![p] = @ + 1]
    /\ pc' = [pc EXCEPT ![p] =
                IF container_index[p] + 1 < DeleteRange
                THEN "delete_check" ELSE AfterDelete(p)]

\* _delete_container_if_exists, line 123
DeleteCheck(p) ==
    /\ pc[p] = "delete_check"
    /\ LET container_name == get_container_name(ResourceName(p), container_index[p])
       IN  /\ Log(p, DockerCall("ps_a", container_name, NoPort, EmptyEnv))
           /\ IF _container_exists(container_name)
              THEN /\ pc' = [pc EXCEPT ![p] = "delete_rm"]
                   /\ UNCHANGED container_index
              ELSE DeleteAdvance(p)
    /\ result' = [result EXCEPT ![p] =
                    IF pc'[p] = "done" THEN [kind |-> "returned", value |-> <<>>] ELSE @]
    /\ UNCHANGED <<containers, req, fatman_port, deployment_timestamp,
                   common_env_vars, plugin_vars_list, runtime_env_vars, before, prev,
                   naming>>

\* _delete_container_if_exists, line 124: docker rm -f
DeleteRemove(p) ==
    /\ pc[p] = "delete_rm"
    /\ LET container_name == get_container_name(ResourceName(p), container_index[p])
       IN  /\ Log(p, DockerCall("rm", container_name, NoPort, EmptyEnv))
           /\ IF container_name \in Names(containers)
              THEN /\ containers' = {c \in containers : c.name # container_name}
                   /\ DeleteAdvance(p)
                   /\ result' = [result EXCEPT ![p] =
                        IF pc'[p] = "done"
                        THEN [kind |-> "returned", value |-> <<>>] ELSE @]
              ELSE \* removed by someone else since the check: docker rm -f
                   \* fails or does nothing, as the docker version has it
                   \E lenient \in BOOLEAN :
                        IF lenient
                        THEN /\ DeleteAdvance(p)
                             /\ result' = [result EXCEPT ![p] =
                                    IF pc'[p] = "done"
                                    THEN [kind |-> "returned", value |-> <<>>] ELSE @]
                             /\ UNCHANGED containers
                        ELSE /\ pc' = [pc EXCEPT ![p] = "failed"]
                             /\ result' = [result EXCEPT ![p] =
                                    [kind |-> "CommandError", value |-> <<>>]]
                             /\ UNCHANGED <<containers, container_index>>
    /\ UNCHANGED <<req, fatman_port, deployment_timestamp,
                   common_env_vars, plugin_vars_list, runtime_env_vars, before, prev,
                   naming>>

\* fatman_exists called by itself
ExistsCheck(p) ==
    /\ pc[p] = "exists_check"
    /\ Log(p, DockerCall("ps_a", get_container_name(ResourceName(p), 0), NoPort, EmptyEnv))
    /\ result' = [result EXCEPT ![p] =
                    [kind |-> "returned",
                     value |-> fatman_exists(req[p].name, req[p].version)]]
    /\ pc' = [pc EXCEPT ![p] = "done"]
    /\ UNCHANGED <<containers, req, container_index, fatman_port, deployment_timestamp,
                   common_env_vars, plugin_vars_list, runtime_env_vars, before, prev,
                   naming>>

\* Variant: the allocation holds the port by creating the primary container
AllocatePortReserving(p) ==
    /\ pc[p] = "allocate"
    /\ calls' = [calls EXCEPT ![p] =
                    Append(@, [cmd |-> "ps_ports", name |-> <<>>, port |-> NoPort,
                               env |-> EmptyEnv])]
    /\ fatman_port' = [fatman_port EXCEPT ![p] = _get_next_fatman_port(containers)]
    /\ containers' = containers \cup
            {[name |-> fatman_resource_name(req[p].name, req[p].version),
              port |-> _get_next_fatman_port(containers), running |-> TRUE]}
    /\ pc' = [pc EXCEPT ![p] = "compose"]
    /\ UNCHANGED <<req, container_index, deployment_timestamp, common_env_vars,
                   plugin_vars_list, runtime_env_vars, before, result, prev, naming>>

\* deploy_fatman, line 46
AllocatePort(p) ==
    /\ pc[p] = "allocate"
    /\ Log(p, DockerCall("ps_ports", <<>>, NoPort, EmptyEnv))
    /\ fatman_port' = [fatman_port EXCEPT ![p] = _get_next_fatman_port(containers)]
    /\ pc' = [pc EXCEPT ![p] = "compose"]
    /\ UNCHANGED <<containers, req, container_index, deployment_timestamp,
                   common_env_vars, plugin_vars_list, runtime_env_vars, before, result,
                   prev, naming>>

\* deploy_fatman, lines 47-73
ComposeEnv(p) ==
    /\ pc[p] = "compose"
    /\ \E timestamp \in Timestamps, hooked \in PluginVarsLists :
        LET common == CommonEnvVars(req[p], timestamp)
            conflicts == Conflicts(common, req[p].runtime_env_vars)
        IN  /\ deployment_timestamp' = [deployment_timestamp EXCEPT ![p] = timestamp]
            /\ common_env_vars' = [common_env_vars EXCEPT ![p] = common]
            /\ IF conflicts # {}
               THEN /\ pc' = [pc EXCEPT ![p] = "failed"]
                    /\ result' = [result EXCEPT ![p] =
                            [kind |-> "RuntimeError", value |-> conflicts]]
                    /\ UNCHANGED <<runtime_env_vars, plugin_vars_list>>
               ELSE /\ pc' = [pc EXCEPT ![p] = "launch"]
                    /\ plugin_vars_list' = [plugin_vars_list EXCEPT ![p] = hooked]
                    /\ runtime_env_vars' = [runtime_env_vars EXCEPT ![p] =
                            MergePlugins(merge_env_vars(req[p].runtime_env_vars, common),
                                         hooked)]
                    /\ UNCHANGED result
    /\ container_index' = [container_index EXCEPT ![p] = 0]
    /\ UNCHANGED <<containers, req, fatman_port, calls, before, prev, naming>>

\* What one docker run is given, lines 77-85
LaunchName(p) == get_container_name(ResourceName(p), container_index[p])
\* Variant: every container of the deployment is given the port mapping
LaunchPortEvery(p) == fatman_port[p]

LaunchPort(p) == IF container_index[p] = 0 THEN fatman_port[p] ELSE NoPort
LaunchEnv(p) == runtime_env_vars[p]

\* Variant: the address by resource name in every deployment mode
FatmanInternalNameByResource(resource_name, port_text, local) ==
    resource_name \o <<":">> \o str(InternalPort)

\* fatman_internal_name; local is what is_deployment_local() answers
fatman_internal_name(resource_name, port_text, local) ==
    IF local
    THEN <<"l", "o", "c", "a", "l", "h", "o", "s", "t", ":">> \o port_text
    ELSE resource_name \o <<":">> \o str(InternalPort)

\* The FatmanDto of lines 94-104
FatmanDto(p, local) ==
    [name |-> req[p].name,
     version |-> req[p].version,
     status |-> "running",
     create_time |-> deployment_timestamp[p],
     update_time |-> deployment_timestamp[p],
     internal_name |-> fatman_internal_name(ResourceName(p), str(fatman_port[p]), local),
     image_tag |-> req[p].tag,
     infrastructure_target |-> "docker"]

\* Variant: a failed launch removes the containers this call launched before
LaunchRollingBack(p) ==
    /\ pc[p] = "launch"
    /\ Log(p, DockerCall("run", LaunchName(p), LaunchPort(p), LaunchEnv(p)))
    /\ \E pulled \in BOOLEAN :
        IF \/ ~pulled
           \/ LaunchName(p) \in Names(containers)
           \/ LaunchPort(p) # NoPort /\ LaunchPort(p) \in PublishedPorts(containers)
        THEN /\ containers' =
                    {c \in containers :
                        \A i \in 0..(container_index[p] - 1) :
                            c.name # get_container_name(ResourceName(p), i)}
             /\ pc' = [pc EXCEPT ![p] = "failed"]
             /\ result' = [result EXCEPT ![p] = [kind |-> "CommandError", value |-> <<>>]]
             /\ UNCHANGED container_index
        ELSE /\ containers' = containers \cup
                    {[name |-> LaunchName(p), port |-> LaunchPort(p), running |-> TRUE]}
             /\ container_index' = [container_index EXCEPT ![p] = @ + 1]
             /\ IF container_index[p] + 1 < req[p].containers_num
                THEN UNCHANGED <<pc, result>>
                ELSE /\ pc' = [pc EXCEPT ![p] = "done"]
                     /\ \E local \in BOOLEAN :
                            result' = [result EXCEPT ![p] =
                                [kind |-> "returned", value |-> FatmanDto(p, local),
                                 local |-> local]]
    /\ UNCHANGED <<req, fatman_port, deployment_timestamp, common_env_vars,
                   plugin_vars_list, runtime_env_vars, before, prev, naming>>

\* deploy_fatman, lines 75-104: one docker run -d, and the return after the last
Launch(p) ==
    /\ pc[p] = "launch"
    /\ Log(p, DockerCall("run", LaunchName(p), LaunchPort(p), LaunchEnv(p)))
    /\ \E pulled \in BOOLEAN :
        IF ~pulled \/ LaunchName(p) \in Names(containers)
        THEN \* the image cannot be pulled, or the name is taken: nothing is created
             /\ pc' = [pc EXCEPT ![p] = "failed"]
             /\ result' = [result EXCEPT ![p] = [kind |-> "CommandError", value |-> <<>>]]
             /\ UNCHANGED <<containers, container_index>>
        ELSE IF LaunchPort(p) # NoPort /\ LaunchPort(p) \in PublishedPorts(containers)
        THEN \* the host port is taken: the container is created and cannot start
             /\ containers' = containers \cup
                    {[name |-> LaunchName(p), port |-> LaunchPort(p), running |-> FALSE]}
             /\ pc' = [pc EXCEPT ![p] = "failed"]
             /\ result' = [result EXCEPT ![p] = [kind |-> "CommandError", value |-> <<>>]]
             /\ UNCHANGED container_index
        ELSE /\ containers' = containers \cup
                    {[name |-> LaunchName(p), port |-> LaunchPort(p), running |-> TRUE]}
             /\ container_index' = [container_index EXCEPT ![p] = @ + 1]
             /\ IF container_index[p] + 1 < req[p].containers_num
                THEN UNCHANGED <<pc, result>>
                ELSE /\ pc' = [pc EXCEPT ![p] = "done"]
                     /\ \E local \in BOOLEAN :
                            result' = [result EXCEPT ![p] =
                                [kind |-> "returned", value |-> FatmanDto(p, local),
                                 local |-> local]]
    /\ UNCHANGED <<req, fatman_port, deployment_timestamp, common_env_vars,
                   plugin_vars_list, runtime_env_vars, before, prev, naming>>

\* The caller has the outcome and may call again
Return(p) ==
    /\ pc[p] \in {"done", "failed"}
    /\ prev' = IF req[p].op = "deploy" /\ pc[p] = "done"
               THEN [op |-> "deploy", name |-> req[p].name, version |-> req[p].version,
                     containers_num |-> req[p].containers_num]
               ELSE NoPrev
    /\ pc' = [pc EXCEPT ![p] = "idle"]
    /\ req' = [req EXCEPT ![p] = NoReq]
    /\ container_index' = [container_index EXCEPT ![p] = 0]
    /\ fatman_port' = [fatman_port EXCEPT ![p] = NoPort]
    /\ deployment_timestamp' = [deployment_timestamp EXCEPT ![p] = 0]
    /\ common_env_vars' = [common_env_vars EXCEPT ![p] = EmptyEnv]
    /\ plugin_vars_list' = [plugin_vars_list EXCEPT ![p] = <<>>]
    /\ runtime_env_vars' = [runtime_env_vars EXCEPT ![p] = EmptyEnv]
    /\ calls' = [calls EXCEPT ![p] = <<>>]
    /\ before' = [before EXCEPT ![p] = {}]
    /\ result' = [result EXCEPT ![p] = NoResult]
    /\ UNCHANGED <<containers, naming>>

DeployWork(p) ==
    \/ DeployExists(p)
    \/ DeleteCheck(p)
    \/ DeleteRemove(p)
    \/ AllocatePort(p)
    \/ ComposeEnv(p)
    \/ Launch(p)

Work(p) == DeployWork(p) \/ ExistsCheck(p)

Call(p) ==
    \/ CallDeploy(p)
    \/ CallDelete(p)
    \/ CallExists(p)
    \/ save_fatman_secrets(p)
    \/ get_fatman_secrets(p)

\* One caller, one call at a time
Next == \E p \in SeqProcs : Call(p) \/ Work(p) \/ Return(p)

Spec == Init /\ [][Next]_vars

\* Two callers, one deploy each, running at once
NextConcurrent == \E p \in Procs : CallPlainDeploy(p) \/ DeployWork(p)

SpecConcurrent == Init /\ [][NextConcurrent]_vars

----------------------------------------------------------------------------
(* The port allocator over daemons of many workloads.  A daemon of this     *)
(* family runs the primary containers of the k first workloads of a long    *)
(* series, each on the port it was given, less those deleted since; it may  *)
(* hold one more that was given the fallback port, and its oldest container *)
(* may have stopped.  A deploy of one more workload is about to allocate.   *)

NumCandidates == (PortEnd - PortStart) \div PortStep

JobContainer(i, running) ==
    [name |-> fatman_resource_name(<<"j">> \o str(i), <<"1">>),
     port |-> IF i < NumCandidates THEN PortStart + PortStep * i ELSE PortEnd,
     running |-> running]

HolePositions == {7 * x * x - 4 : x \in 1..MaxHole}

PortDaemons ==
    {{JobContainer(i, ~(stopped /\ i = 0)) :
            i \in ((0..(k - 1)) \ holes)
                    \cup (IF fallback THEN {NumCandidates} ELSE {})} :
        k \in 0..NumCandidates, holes \in SUBSET HolePositions,
        fallback \in BOOLEAN, stopped \in BOOLEAN}

InitPorts ==
    /\ containers \in PortDaemons
    /\ \E m \in Manifests :
        LET r == DeployRequest(m, 1, EmptyEnv, FALSE, <<"t">>)
        IN  /\ req = [p \in Procs |-> IF p \in SeqProcs THEN r ELSE NoReq]
            /\ calls = [p \in Procs |->
                    IF p \in SeqProcs
                    THEN <<DockerCall("ps_a",
                            get_container_name(fatman_resource_name(m.name, m.version), 0),
                            NoPort, EmptyEnv)>>
                    ELSE <<>>]
    /\ pc = [p \in Procs |-> IF p \in SeqProcs THEN "allocate" ELSE "idle"]
    /\ before = [p \in Procs |-> IF p \in SeqProcs THEN containers ELSE {}]
    /\ container_index = [p \in Procs |-> 0]
    /\ fatman_port = [p \in Procs |-> NoPort]
    /\ deployment_timestamp = [p \in Procs |-> 0]
    /\ common_env_vars = [p \in Procs |-> EmptyEnv]
    /\ plugin_vars_list = [p \in Procs |-> <<>>]
    /\ runtime_env_vars = [p \in Procs |-> EmptyEnv]
    /\ result = [p \in Procs |-> NoResult]
    /\ prev = NoPrev
    /\ naming = NoNaming

NextPorts == \E p \in SeqProcs : AllocatePort(p)

SpecPorts == InitPorts /\ [][NextPorts]_vars

----------------------------------------------------------------------------
(* A deploy on a daemon that already runs nearly as many workloads as there *)
(* are candidate ports: fewer than that many, all running, none on the      *)
(* fallback port.  These are daemons that deploys and deletes made one      *)
(* after another leave behind.                                              *)

FleetDaemons ==
    {d \in PortDaemons :
        /\ \A c \in d : c.running /\ c.port < PortEnd
        /\ Cardinality(d) < NumCandidates
        /\ Cardinality(d) >= NumCandidates - 1 - MaxHole}

InitFleet == InitPorts /\ containers \in FleetDaemons

NextFleet == \E p \in SeqProcs : AllocatePort(p) \/ ComposeEnv(p) \/ Launch(p)

SpecFleet == InitFleet /\ [][NextFleet]_vars

----------------------------------------------------------------------------
(* The naming scheme alone, over many indices *)

Identities == {fatman_resource_name(m.name, m.version) : m \in Manifests}

InitNaming ==
    /\ containers = {}
    /\ InitProcs
    /\ prev = NoPrev
    /\ naming \in [id : Identities, i : 0..MaxIndex, j : 0..MaxIndex, out : {<<>>}]

ApplyNaming ==
    /\ naming.out = <<>>
    /\ naming' = [naming EXCEPT !.out = <<get_container_name(naming.id, naming.i),
                                          get_container_name(naming.id, naming.j)>>]
    /\ UNCHANGED <<containers, procVars, prev>>

NextNaming == ApplyNaming

SpecNaming == InitNaming /\ [][NextNaming]_vars

----------------------------------------------------------------------------
(* Vocabulary of the properties *)

CallsOf(p, cmd) == SelectSeq(calls[p], LAMBDA c : c.cmd = cmd)

\* The indices i for which a container named for (identity, i) is in the daemon
IndicesPresent(resource_name) ==
    {i \in 0..(MaxContainers + 1) :
        get_container_name(resource_name, i) \in Names(containers)}

\* The reserved names of a deploy, read off lines 52-63
ReservedNames(r) ==
    {"PUB_URL", "FATMAN_NAME", "AUTH_TOKEN", "FATMAN_DEPLOYMENT_TIMESTAMP",
     "REQUEST_TRACING_HEADER"}
    \cup (IF r.open_telemetry_enabled THEN {"OPENTELEMETRY_ENDPOINT"} ELSE {})
    \cup (IF r.containers_num > 1 THEN {"FATMAN_USER_MODULE_HOSTNAME"} ELSE {})

UserConflict(r) == (DOMAIN r.runtime_env_vars) \cap ReservedNames(r) # {}

\* Some mapping of the plugins' list of p has the key k
PluginDefines(p, k) ==
    \E i \in 1..Len(plugin_vars_list[p]) : k \in DOMAIN plugin_vars_list[p][i]

----------------------------------------------------------------------------
(* C1: redeploy is a full replace. After deploy(A, n) has returned and the  *)
(* next call, deploy(A, m), has returned too, the containers of A in the    *)
(* daemon are exactly those of indices 0..m-1.                              *)
(* The code removes indices 0 and 1 only: deploy(A, 3) then deploy(A, 1)    *)
(* leaves the container of index 2.                                         *)
C1_RedeployIsFullReplace ==
    \A p \in Procs :
        (/\ pc[p] = "done"
         /\ req[p].op = "deploy"
         /\ prev.op = "deploy"
         /\ prev.name = req[p].name
         /\ prev.version = req[p].version)
        => IndicesPresent(ResourceName(p)) = 0..(req[p].containers_num - 1)

(* C2: a caller-supplied variable with a reserved name of this deployment   *)
(* makes deploy fail with the RuntimeError naming the keys, and no docker   *)
(* run is issued by that call at any point; the keys are those of the       *)
(* caller's own mapping, so a mapping without a reserved name never raises  *)
(* that error.                                                              *)
C2_ConflictAbortsBeforeLaunch ==
    \A p \in Procs :
        /\ (req[p].op = "deploy" /\ UserConflict(req[p]))
            => /\ CallsOf(p, "run") = <<>>
               /\ pc[p] \notin {"launch", "done"}
               /\ pc[p] = "failed" =>
                    /\ result[p].kind = "RuntimeError"
                    /\ result[p].value =
                          (DOMAIN req[p].runtime_env_vars) \cap ReservedNames(req[p])
        /\ result[p].kind = "RuntimeError" => UserConflict(req[p])

C2_Witness ==
    \E p \in Procs :
        /\ pc[p] = "failed"
        /\ req[p].runtime_env_vars = Env1("PUB_URL", <<"x">>)
        /\ result[p] = [kind |-> "RuntimeError", value |-> {"PUB_URL"}]
        /\ CallsOf(p, "run") = <<>>

(* C3: a deploy that fails with the configuration conflict has had no side  *)
(* effect: the daemon holds the containers it held when deploy was called,  *)
(* and no docker rm was issued.                                             *)
(* The code removes the existing deployment (line 44) before it looks at    *)
(* the variables (line 65).                                                 *)
C3_ConflictHasNoSideEffect ==
    \A p \in Procs :
        (pc[p] = "failed" /\ result[p].kind = "RuntimeError")
        => /\ containers = before[p]
           /\ CallsOf(p, "rm") = <<>>
           /\ CallsOf(p, "run") = <<>>

C4_WitnessThree ==
    \E p \in Procs :
        /\ pc[p] = "compose"
        /\ fatman_port[p] = 7030
        /\ OccupiedPorts(containers) = {7000, 7010, 7020}

(* C5: the allocation reserves nothing.  When a deploy has allocated its    *)
(* port, the daemon is as it was and the allocator still returns that same  *)
(* port to whoever asks next; so two deploys of different identities running*)
(* at once can both be given one port and both issue docker run for their   *)
(* primary container with the same host-port mapping (the witness).         *)
C5_AllocationReservesNothing ==
    [][\A p \in Procs :
            (pc[p] = "allocate" /\ pc'[p] = "compose")
            => /\ containers' = containers
               /\ _get_next_fatman_port(containers') = fatman_port'[p]]_vars

C5_Witness ==
    \E p, q \in Procs :
        /\ p # q
        /\ ResourceName(p) # ResourceName(q)
        /\ CallsOf(p, "run") # <<>>
        /\ CallsOf(q, "run") # <<>>
        /\ CallsOf(p, "run")[1].name = ResourceName(p)
        /\ CallsOf(q, "run")[1].name = ResourceName(q)
        /\ CallsOf(p, "run")[1].port # NoPort
        /\ CallsOf(p, "run")[1].port = CallsOf(q, "run")[1].port
        /\ \E c, d \in containers :
              /\ c.name = ResourceName(p)
              /\ d.name = ResourceName(q)
              /\ c.port = d.port

(* C6: fatman_exists returns TRUE exactly when the daemon holds a container *)
(* whose name is the primary (index 0) container name of the identity; it   *)
(* returns FALSE when the containers present only have names that extend    *)
(* that name.                                                               *)
C6_ExistsIsExactMatch ==
    \A p \in Procs :
        (pc[p] = "done" /\ req[p].op = "exists")
        => LET primary == fatman_resource_name(req[p].name, req[p].version)
           IN  /\ result[p].kind = "returned"
               /\ result[p].value = (\E c \in containers : c.name = primary)
               /\ (\A c \in containers : c.name # primary) => result[p].value = FALSE

C6_Witness ==
    \E p \in Procs :
        /\ pc[p] = "done"
        /\ req[p].op = "exists"
        /\ result[p].value = FALSE
        /\ \E c \in containers :
              /\ IsPrefix(fatman_resource_name(req[p].name, req[p].version), c.name)
              /\ c.name # fatman_resource_name(req[p].name, req[p].version)

(* C7: delete_fatman checks the containers named for index 0 and index 1 of *)
(* the identity, in that order, and removes by force each one that exists;  *)
(* when neither exists it issues no docker rm and returns normally; every   *)
(* other container, those of the same identity with index 2 or more         *)
(* included, stays as it was.                                               *)
C7_DeleteRemovesIndexZeroAndOne ==
    \A p \in Procs :
        (pc[p] \in {"done", "failed"} /\ req[p].op = "delete")
        => LET id == fatman_resource_name(req[p].name, req[p].version)
               n0 == id
               n1 == id \o <<"-", "1">>
               check(n) == [cmd |-> "ps_a", name |-> n, port |-> NoPort, env |-> EmptyEnv]
               remove(n) == IF n \in Names(before[p])
                            THEN <<[cmd |-> "rm", name |-> n, port |-> NoPort,
                                    env |-> EmptyEnv]>>
                            ELSE <<>>
           IN  /\ pc[p] = "done"
               /\ result[p].kind = "returned"
               /\ calls[p] = <<check(n0)>> \o remove(n0) \o <<check(n1)>> \o remove(n1)
               /\ containers = {c \in before[p] : c.name \notin {n0, n1}}

C7_Witness ==
    \E p \in Procs :
        /\ pc[p] = "done"
        /\ req[p].op = "delete"
        /\ Len(CallsOf(p, "rm")) = 2
        /\ get_container_name(ResourceName(p), 2) \in Names(containers)

C7_WitnessNothingToDelete ==
    \E p \in Procs :
        /\ pc[p] = "done"
        /\ req[p].op = "delete"
        /\ CallsOf(p, "rm") = <<>>
        /\ containers # {}
        /\ containers = before[p]

(* C8: a deploy issues its docker run calls in ascending index order, each  *)
(* under the name of the naming scheme for its index; only the one of index *)
(* 0 has a host-port mapping, to the port the allocator returned in this    *)
(* deploy; all have the one composed environment with the one deployment    *)
(* timestamp, which is the one deploy computed unless a plugin mapping      *)
(* defines the variable; a deploy that returns has issued exactly           *)
(* containers_num.                                                          *)
C8_LaunchCalls ==
    \A p \in Procs :
        req[p].op = "deploy" =>
            LET runs == CallsOf(p, "run")
                id == fatman_resource_name(req[p].name, req[p].version)
            IN  /\ pc[p] = "done" => Len(runs) = req[p].containers_num
                /\ Len(runs) <= req[p].containers_num
                /\ \A i \in 1..Len(runs) :
                      /\ runs[i].name = get_container_name(id, i - 1)
                      /\ runs[i].port = IF i = 1 THEN fatman_port[p] ELSE NoPort
                      /\ runs[i].env = runtime_env_vars[p]
                      /\ runs[i].env = runs[1].env
                      /\ runs[i].env["FATMAN_DEPLOYMENT_TIMESTAMP"]
                            = runs[1].env["FATMAN_DEPLOYMENT_TIMESTAMP"]
                      /\ ~PluginDefines(p, "FATMAN_DEPLOYMENT_TIMESTAMP")
                            => runs[i].env["FATMAN_DEPLOYMENT_TIMESTAMP"]
                                  = str(deployment_timestamp[p])
                /\ runs # <<>> =>
                      /\ Len(CallsOf(p, "ps_ports")) = 1
                      /\ runs[1].port \in {7000 + 10 * i : i \in 0..100}
                /\ (pc[p] = "compose" \/ (pc[p] = "launch" /\ runs = <<>>))
                      => fatman_port[p] = _get_next_fatman_port(containers)

C8_Witness ==
    \E p \in Procs :
        /\ pc[p] = "done"
        /\ req[p].op = "deploy"
        /\ req[p].containers_num = 2
        /\ Len(CallsOf(p, "run")) = 2
        /\ CallsOf(p, "run")[1].port = 7010
        /\ CallsOf(p, "run")[2].port = NoPort
        /\ CallsOf(p, "run")[2].env = CallsOf(p, "run")[1].env

(* C9: for one identity the naming scheme gives the identity itself to      *)
(* index 0, the identity followed by "-" and the index in decimal to every  *)
(* index from 1 on, and different names to different indices.               *)
DigitValue(ch) == CHOOSE d \in 0..9 : Digits[d + 1] = ch

RECURSIVE ParseDecimal(_)
ParseDecimal(s) ==
    IF s = <<>> THEN 0
    ELSE 10 * ParseDecimal(SubSeq(s, 1, Len(s) - 1)) + DigitValue(s[Len(s)])

IsDecimalOf(s, n) ==
    /\ s # <<>>
    /\ \A k \in 1..Len(s) : \E d \in 1..10 : Digits[d] = s[k]
    /\ s[1] # "0"
    /\ ParseDecimal(s) = n

C9_NamingCollisionFree ==
    naming.out # <<>> =>
        LET head == naming.id \o <<"-">>
            named(i, n) ==
                IF i = 0 THEN n = naming.id
                ELSE /\ IsPrefix(head, n)
                     /\ IsDecimalOf(SubSeq(n, Len(head) + 1, Len(n)), i)
        IN  /\ named(naming.i, naming.out[1])
            /\ named(naming.j, naming.out[2])
            /\ naming.i # naming.j => naming.out[1] # naming.out[2]

C9_Witness ==
    /\ naming.out # <<>>
    /\ naming.i = 1
    /\ naming.j = 11
    /\ naming.out[1] = naming.id \o <<"-", "1">>
    /\ naming.out[2] = naming.id \o <<"-", "1", "1">>

(* C10 as claimed: a plugin-contributed mapping with a reserved name makes  *)
(* deploy end in the hard failure, before any docker run.                   *)
PluginReservedKeys(p) ==
    {k \in DOMAIN common_env_vars[p] :
        \E i \in 1..Len(plugin_vars_list[p]) : k \in DOMAIN plugin_vars_list[p][i]}

LastPluginValue(p, k) ==
    LET having == {i \in 1..Len(plugin_vars_list[p]) : k \in DOMAIN plugin_vars_list[p][i]}
        last == CHOOSE i \in having : \A j \in having : j <= i
    IN  plugin_vars_list[p][last][k]

DescriptorFields(p) ==
    LET dto == result[p].value
        id == fatman_resource_name(req[p].name, req[p].version)
        runs == CallsOf(p, "run")
    IN  /\ result[p].kind = "returned"
        /\ dto.name = req[p].name
        /\ dto.version = req[p].version
        /\ dto.image_tag = req[p].tag
        /\ dto.status = "running"
        /\ dto.create_time = dto.update_time
        /\ result[p].local =>
              /\ IsPrefix(<<"l", "o", "c", "a", "l", "h", "o", "s", "t", ":">>,
                          dto.internal_name)
              /\ IsDecimalOf(SubSeq(dto.internal_name, 11, Len(dto.internal_name)),
                             runs[1].port)
              /\ runs[1].port = fatman_port[p]
        /\ ~result[p].local =>
              dto.internal_name = id \o <<":">> \o str(InternalPort)

C12_SecretsUnsupported ==
    \A p \in Procs :
        req[p].op \in {"save_fatman_secrets", "get_fatman_secrets"}
        => /\ pc[p] = "failed"
           /\ result[p].kind = "NotImplementedError"
           /\ calls[p] = <<>>
           /\ containers = before[p]

\* save_fatman_secrets with secrets to save, called on a daemon that holds a
\* deployment
C12_Witness ==
    \E p \in Procs :
        /\ req[p].op = "save_fatman_secrets"
        /\ req[p].fatman_secrets # EmptyEnv
        /\ result[p].kind = "NotImplementedError"
        /\ containers # {}

C12_WitnessGet ==
    \E p \in Procs :
        /\ req[p].op = "get_fatman_secrets"
        /\ result[p].kind = "NotImplementedError"
        /\ Cardinality(containers) >= 2

\* The deploy of p has failed in docker run
LaunchFailed(p) ==
    /\ req[p].op = "deploy"
    /\ pc[p] = "failed"
    /\ result[p].kind = "CommandError"
    /\ CallsOf(p, "run") # <<>>

(* C13: a launch failure is propagated and not rolled back.  When docker    *)
(* run fails for index k of a deploy with count n, the deploy ends with the *)
(* command's error and no descriptor; the failed run is the last command of *)
(* the call, so nothing is removed after it and indices k+1..n-1 are never  *)
(* launched; the containers of indices 0..k-1, launched by this call, are   *)
(* in the daemon and running.                                               *)
C13_LaunchFailureNotRolledBack ==
    \A p \in Procs :
        LaunchFailed(p)
        => LET runs == CallsOf(p, "run")
               k == Len(runs) - 1
               id == fatman_resource_name(req[p].name, req[p].version)
           IN  /\ k = container_index[p]
               /\ k < req[p].containers_num
               /\ result[p].value = <<>>
               /\ calls[p][Len(calls[p])].cmd = "run"
               /\ calls[p][Len(calls[p])].name = get_container_name(id, k)
               /\ \A i \in 1..Len(runs) : runs[i].name = get_container_name(id, i - 1)
               /\ \A i, j \in 1..Len(calls[p]) :
                    (calls[p][i].cmd = "run" /\ calls[p][j].cmd = "rm") => j < i
               /\ \A i \in 0..(k - 1) :
                    \E c \in containers :
                        /\ c.name = get_container_name(id, i)
                        /\ c.running
                        /\ c.port = runs[i + 1].port

\* The launch of index 2 of 3 failed after two containers were launched
C13_Witness ==
    \E p \in Procs :
        /\ LaunchFailed(p)
        /\ req[p].containers_num = 3
        /\ container_index[p] = 2
        /\ Cardinality(containers) >= 2

\* The deploy of p has composed its environment
Composed(p) ==
    /\ req[p].op = "deploy"
    /\ pc[p] \in {"launch", "done", "failed"}
    /\ result[p].kind # "RuntimeError"
    /\ deployment_timestamp[p] # 0

(* C14: the composed environment has the keys of the caller's mapping, of   *)
(* the reserved variables and of every plugin mapping, and for every key    *)
(* the value of the last plugin mapping that defines it, else the reserved  *)
(* value, else the caller's; a plugin key that is a reserved name replaces  *)
(* the reserved value and the deploy does not fail on it.  Every docker run *)
(* of the deploy is given this environment.                                 *)
C14_EnvironmentPrecedence ==
    \A p \in Procs :
        Composed(p)
        => LET env == runtime_env_vars[p]
               plugin_keys == UNION {DOMAIN plugin_vars_list[p][i] :
                                        i \in 1..Len(plugin_vars_list[p])}
           IN  /\ DOMAIN env = (DOMAIN req[p].runtime_env_vars)
                                \cup (DOMAIN common_env_vars[p]) \cup plugin_keys
               /\ \A k \in DOMAIN env :
                    env[k] = IF k \in plugin_keys THEN LastPluginValue(p, k)
                             ELSE IF k \in DOMAIN common_env_vars[p]
                             THEN common_env_vars[p][k]
                             ELSE req[p].runtime_env_vars[k]
               /\ \A i \in 1..Len(CallsOf(p, "run")) : CallsOf(p, "run")[i].env = env

\* Caller, reserved set and two plugins all contribute; the later plugin's
\* MY_VAR wins over the earlier plugin's and the caller's, a plugin replaces the
\* reserved timestamp, and a container was launched with the result
C14_Witness ==
    \E p \in Procs :
        /\ Composed(p)
        /\ CallsOf(p, "run") # <<>>
        /\ req[p].runtime_env_vars = Env1("MY_VAR", <<"m">>)
        /\ Len(plugin_vars_list[p]) = 3
        /\ runtime_env_vars[p]["MY_VAR"] = <<"r">>
        /\ runtime_env_vars[p]["FATMAN_DEPLOYMENT_TIMESTAMP"] = <<"9">>
        /\ runtime_env_vars[p]["PUB_URL"] = InternalPubUrl

\* The deploy of p has computed its reserved variables
ReservedComputed(p) == req[p].op = "deploy" /\ deployment_timestamp[p] # 0

(* C15 as stated: the reserved variables of a deploy have                   *)
(* FATMAN_USER_MODULE_HOSTNAME if and only if the container count is        *)
(* greater than 1, and its value is then the name of the container of index *)
(* 0, the primary.                                                          *)
(* Line 63 takes get_container_name(entrypoint_resource_name, 1): the value *)
(* is the name of the container of index 1.                                 *)
C15_HostnameOfPrimary ==
    \A p \in Procs :
        ReservedComputed(p)
        => /\ ("FATMAN_USER_MODULE_HOSTNAME" \in DOMAIN common_env_vars[p])
                <=> (req[p].containers_num > 1)
           /\ req[p].containers_num > 1
                => common_env_vars[p]["FATMAN_USER_MODULE_HOSTNAME"]
                      = fatman_resource_name(req[p].name, req[p].version)

(* C15, amended: the reserved variables of a deploy have                    *)
(* FATMAN_USER_MODULE_HOSTNAME if and only if the container count is        *)
(* greater than 1; its value is then the name of the container of index 1   *)
(* ("<resource name>-1"), and a caller's variable of that name is a         *)
(* conflict.  With count 1 a caller's variable of that name is no conflict  *)
(* and, no plugin defining it, reaches the composed environment.            *)
C15_HostnameOfUserModule ==
    \A p \in Procs :
        ReservedComputed(p)
        => LET hostname == "FATMAN_USER_MODULE_HOSTNAME"
               caller == req[p].runtime_env_vars
           IN  /\ (hostname \in DOMAIN common_env_vars[p]) <=> (req[p].containers_num > 1)
               /\ req[p].containers_num > 1
                    => /\ common_env_vars[p][hostname]
                            = fatman_resource_name(req[p].name, req[p].version)
                                \o <<"-", "1">>
                       /\ hostname \in DOMAIN caller
                            => /\ result[p].kind = "RuntimeError"
                               /\ hostname \in result[p].value
               /\ (req[p].containers_num = 1 /\ hostname \in DOMAIN caller)
                    => /\ result[p].kind # "RuntimeError"
                       /\ ~PluginDefines(p, hostname)
                            => runtime_env_vars[p][hostname] = caller[hostname]

\* A deploy of three containers launched its last one with the hostname of
\* the container of index 1 in the environment
C15_Witness ==
    \E p \in Procs :
        /\ ReservedComputed(p)
        /\ pc[p] = "done"
        /\ req[p].containers_num = 3
        /\ CallsOf(p, "run")[3].env["FATMAN_USER_MODULE_HOSTNAME"]
              = <<"f", "a", "t", "m", "a", "n", "-", "a", "-", "v", "-", "1", "-", "1">>
        /\ req[p].version = <<"1">>

\* A deploy of one container given the caller's variable of that name
C15_WitnessCallerVariable ==
    \E p \in Procs :
        /\ ReservedComputed(p)
        /\ pc[p] = "done"
        /\ req[p].containers_num = 1
        /\ "FATMAN_USER_MODULE_HOSTNAME" \in DOMAIN req[p].runtime_env_vars
        /\ "FATMAN_USER_MODULE_HOSTNAME" \in DOMAIN CallsOf(p, "run")[1].env
        /\ CallsOf(p, "run")[1].env["FATMAN_USER_MODULE_HOSTNAME"] = <<"w">>

\* The phase of deploy_fatman a docker command belongs to
Phase(c) ==
    CASE c.cmd \in {"ps_a", "rm"} -> 1
      [] c.cmd = "ps_ports" -> 2
      [] OTHER -> 3

(* C16: within one deploy the docker commands come in a fixed order.  The   *)
(* existence check of the primary container is first, the checks and        *)
(* removals of the cleanup follow, then one port query and no more, then    *)
(* the conflict check and the composition, then the launches.  When the     *)
(* port query is made the primary container of the identity is not in the   *)
(* daemon, so its port is not counted; no docker run comes before a removal *)
(* or before the port query.                                                *)
C16_OrderOfOperations ==
    \A p \in Procs :
        req[p].op = "deploy"
        => LET id == fatman_resource_name(req[p].name, req[p].version)
               n == Len(calls[p])
           IN  /\ \A i, j \in 1..n : i < j => Phase(calls[p][i]) <= Phase(calls[p][j])
               /\ Len(CallsOf(p, "ps_ports")) <= 1
               /\ n >= 1 => calls[p][1].cmd = "ps_a" /\ calls[p][1].name = id
               /\ \A i \in 1..n :
                    calls[p][i].cmd \in {"ps_a", "rm"}
                    => calls[p][i].name \in {id, id \o <<"-", "1">>}
               /\ pc[p] = "allocate"
                    => /\ n >= 1
                       /\ CallsOf(p, "ps_ports") = <<>>
                       /\ id \notin Names(containers)
               /\ (pc[p] = "compose" \/ deployment_timestamp[p] # 0)
                    => /\ Len(CallsOf(p, "ps_ports")) = 1
                       /\ fatman_port[p] # NoPort
               /\ pc[p] = "compose" => deployment_timestamp[p] = 0
               /\ result[p].kind = "RuntimeError" => CallsOf(p, "run") = <<>>
               /\ CallsOf(p, "run") # <<>> => deployment_timestamp[p] # 0

\* A redeploy that removed both containers of the earlier deployment, was
\* given the port the earlier primary container had, and launched
C16_Witness ==
    \E p \in Procs :
        /\ req[p].op = "deploy"
        /\ pc[p] = "done"
        /\ Len(CallsOf(p, "rm")) = 2
        /\ Len(CallsOf(p, "run")) >= 2
        /\ \E c \in before[p] :
            /\ c.name = fatman_resource_name(req[p].name, req[p].version)
            /\ c.port = fatman_port[p]
            /\ c.running

(* C17 as stated, for one caller: whenever deploy is about to issue docker   *)
(* run for a container name, no container of that name is in the daemon;    *)
(* taken here in the case the claim names, a deploy that follows a returned *)
(* deploy of the same identity, whatever the two counts.                    *)
(* delete_fatman removes indices 0 and 1 only: after deploy(A, 3) the       *)
(* cleanup of the next deploy(A, 3) leaves the container of index 2, and    *)
(* the launch of index 2 meets it.                                          *)
C17_LaunchNameIsFree ==
    \A p \in SeqProcs :
        (/\ req[p].op = "deploy"
         /\ pc[p] = "launch"
         /\ prev.op = "deploy"
         /\ prev.name = req[p].name
         /\ prev.version = req[p].version)
        => LaunchName(p) \notin Names(containers)

\* The containers that were in the daemon when the call of p began and are
\* not in it now
Removed(p) == before[p] \ containers

(* C18 as stated, for one caller: delete_fatman(A) and the cleanup of        *)
(* deploy_fatman(A) remove no container launched for another identity, and   *)
(* deploy_fatman(A) issues no docker run under a name that a container of    *)
(* another identity in the daemon has.  Only index 0 is launched with a host *)
(* port, so a container with a host port is the primary container of the     *)
(* identity it is named after.                                               *)
(* get_container_name(A, 1) is A followed by "-1", which is itself the       *)
(* resource name of another identity: delete_fatman(a, 1) removes the        *)
(* primary container of (a, 1.1).                                            *)
C18_IdentitiesIsolated ==
    \A p \in SeqProcs :
        req[p].op \in {"deploy", "delete"}
        => /\ \A c \in Removed(p) : c.port # NoPort => c.name = ResourceName(p)
           /\ \A i \in 1..Len(CallsOf(p, "run")) :
                \A c \in before[p] :
                    (c.port # NoPort /\ c.name # ResourceName(p))
                    => CallsOf(p, "run")[i].name # c.name

\* The containers that have a host-port mapping: the primary containers
Primaries(cs) == {c \in cs : c.port # NoPort}

C19_WitnessFreedPort ==
    \E p \in Procs :
        /\ req[p].op = "deploy"
        /\ pc[p] = "done"
        /\ fatman_port[p] = 7030
        /\ 7970 \in PublishedPorts(containers)

====
